---------------------------- MODULE Spec2Model ----------------------------
(***************************************************************************)
(* A model of aiopika's dispatch core (src/aiopika/_dispatch.py: Waiter,   *)
(* EventDispatcherObject, create_task) and of its AMQP field/table codec   *)
(* (src/aiopika/data.py).                                                  *)
(*                                                                         *)
(* The module holds four components.  Each has its own variables, its own  *)
(* initial condition and its own actions; the variable `component` says    *)
(* which one a behaviour exercises, and the other components' variables    *)
(* then stay at their idle values.                                         *)
(***************************************************************************)
EXTENDS Integers, Sequences, FiniteSets, TLC

VARIABLES
    component,      \* which component this behaviour exercises
    \* ---- Waiter (asyncio.Event subclass), _dispatch.py:17-68
    predicate,      \* Waiter._predicate, as the set of values it accepts
    ev_value,       \* asyncio.Event._value, the hidden binary signal
    canceld,        \* Waiter._canceld
    waiting,        \* Waiter._waiting
    stored,         \* Waiter._stored_value (SENTINEL when empty)
    pc,             \* per caller: where it is inside wait()
    waiters,        \* asyncio.Event._waiters: the callers inside Event.wait(), FIFO
    ready,          \* the loop's FIFO of callers whose future was resolved
    lastOp,         \* the last completed call or step, with its result
    matched,        \* history: values whose check() returned true since clear()
    delivered,      \* history: a cancel() returned true since the last clear()
    owed,           \* history, per caller: a cancel() returned true while in wait()
    sawReject,      \* history, per caller: a check() failed while it was blocked
    prevCycle,      \* history: how the cycle before the last clean clear() ended
    pending,        \* history: the value a check() recorded with nobody in wait()
    latest,         \* history: the argument of the latest successful check()
    skipped,        \* history: matched values overwritten before a wait() returned
    returns,        \* history: wait() returns since the latest successful check()
    \* ---- create_task, _dispatch.py:131-142
    ustate,         \* per unit of work: "none", "running" or "done"
    outcome,        \* per unit: how its task completed
    callback,       \* per unit: result_handler is "none", "scheduled" or "ran"
    calls,          \* per unit: the (handle, fault) pairs exception_handler got
    \* ---- EventDispatcherObject, _dispatch.py:71-128
    dphase,         \* "new" before __init__, "built" after it
    attrs,          \* the instance's attributes: name -> handler, or Absent
    built_attrs,    \* history: attrs as they were when __init__ ran
    dispatcher,     \* self.__dispatcher: method -> handler or NoneHandler
    warned,         \* the attribute names the constructor logged a warning for
    dlast,          \* the last _dispatch_event call with its result
    dmissed,        \* history: some _dispatch_event call raised UnexpectedFrame
    \* ---- the codec's caller, data.py
    cop,            \* the encoder under call
    carg,           \* the value handed to it
    cpieces0,       \* the pieces list as the caller hands it over
    cphase,         \* "input", "encoded", "decoding" or "decoded"
    cenc,           \* what the encoder handed back
    cdec,           \* what the decoder handed back, or holds inside its loop
    dlimit,         \* limit / offset_end of the decoder's loop
    dprev           \* history: the offset at which the last iteration started

waiterVars == <<predicate, ev_value, canceld, waiting, stored, pc, waiters, ready,
                lastOp, matched, delivered, owed, sawReject, prevCycle,
                pending, latest, skipped, returns>>

supervisorVars == <<ustate, outcome, callback, calls>>

dispatchVars == <<dphase, attrs, built_attrs, dispatcher, warned, dlast, dmissed>>

codecVars == <<cop, carg, cpieces0, cphase, cenc, cdec, dlimit, dprev>>

vars == <<component, waiterVars, supervisorVars, dispatchVars, codecVars>>

-----------------------------------------------------------------------------
(***************************************************************************)
(* Bounds of the model.                                                    *)
(***************************************************************************)
NumCallers == 2
MaxValue == 2
NumUnits == 3
NumEvents == 1
MaxLen == 2

-----------------------------------------------------------------------------
(***************************************************************************)
(* Waiter                                                                  *)
(***************************************************************************)
Callers == 1..NumCallers
Values == 0..MaxValue

\* _SENTINEL = object(): a value no check() argument equals.
SENTINEL == -1

\* The predicates a Waiter is built with; the default `lambda value: value`
\* (truthiness) is the set of non-zero values.
Predicates == SUBSET Values

NoOp == [op |-> "init", task |-> 0, arg |-> SENTINEL, res |-> "None", val |-> SENTINEL]

\* Waiter.__init__ followed by _reset(): Event._value is False, nobody waits.
InitWaiterState ==
    /\ ev_value = FALSE
    /\ canceld = FALSE
    /\ waiting = FALSE
    /\ stored = SENTINEL
    /\ pc = [t \in Callers |-> "idle"]
    /\ waiters = <<>>
    /\ ready = <<>>
    /\ lastOp = NoOp
    /\ matched = {}
    /\ delivered = FALSE
    /\ owed = [t \in Callers |-> FALSE]
    /\ sawReject = [t \in Callers |-> FALSE]
    /\ prevCycle = "none"
    /\ pending = SENTINEL
    /\ latest = SENTINEL
    /\ skipped = {}
    /\ returns = 0

InitWaiter ==
    /\ component = "waiter"
    /\ predicate \in Predicates
    /\ InitWaiterState

IdleWaiter ==
    /\ predicate = {}
    /\ InitWaiterState

\* The callers blocked on a pending future of Event.wait().
Blocked == {t \in Callers : pc[t] = "blocked"}
\* The callers inside wait(): blocked, or woken and not yet resumed.
InWait == {t \in Callers : pc[t] # "idle"}

\* The other components are untouched by the Waiter's operations.
WaiterFrame == UNCHANGED <<component, supervisorVars, dispatchVars, codecVars>>

IsBlocked(t) == pc[t] = "blocked"

\* asyncio.Event.set(): if the signal is not set, set it and resolve the
\* future of every waiter; each resolved waiter is scheduled to resume.
EventSet ==
    IF ev_value
    THEN UNCHANGED <<ev_value, pc, ready>>
    ELSE /\ ev_value' = TRUE
         /\ pc' = [t \in Callers |-> IF pc[t] = "blocked" THEN "woken" ELSE pc[t]]
         /\ ready' = ready \o SelectSeq(waiters, IsBlocked)

\* self._predicate(value)
predicate_result_always(v) == TRUE
predicate_result(v) == v \in predicate

\* `self._stored_value = value`: what check() puts in the slot.
CheckStores_nothing(v) == stored
CheckStores_first(v) == IF stored = SENTINEL THEN v ELSE stored
CheckStores(v) == v

\* Waiter.check(value)
Check(v) ==
    /\ component = "waiter"
    /\ IF predicate_result(v)
       THEN /\ stored' = CheckStores(v)
            /\ EventSet
            /\ matched' = matched \cup {v}
            /\ pending' = IF InWait = {} THEN v ELSE pending
            /\ latest' = v
            /\ skipped' = IF latest # SENTINEL /\ returns = 0
                           THEN (skipped \cup {latest}) \ {v}
                           ELSE skipped \ {v}
            /\ returns' = 0
            /\ UNCHANGED sawReject
       ELSE /\ UNCHANGED <<stored, ev_value, pc, ready, matched, pending, latest,
                           skipped, returns>>
            /\ sawReject' = [t \in Callers |-> sawReject[t] \/ pc[t] = "blocked"]
    /\ lastOp' = [op |-> "check", task |-> 0, arg |-> v,
                  res |-> IF predicate_result(v) THEN "True" ELSE "False",
                  val |-> SENTINEL]
    /\ UNCHANGED <<predicate, canceld, waiting, waiters, delivered, owed, prevCycle>>
    /\ WaiterFrame

\* `self._stored_value = _SENTINEL`: the slot after wait() took the value.
SlotAfterReturn_kept == stored
SlotAfterReturn == SENTINEL

\* asyncio.Event.wait() returns at once when the signal is set.
EventIsSet_never == FALSE
EventIsSet == ev_value

\* Lines 47-56 of Waiter.wait(), run by caller t once Event.wait() returned:
\* unmark waiting, raise if canceled, assert a value is stored, hand it out.
\* `how` records whether the call got here without suspending ("wait") or
\* after the loop resumed it ("resume").
\* The record of a wait() call carries, as arg, the value that was pending
\* when it was called (SENTINEL when none was, and for a resumed call).
WaitTail(t, how) ==
    /\ waiting' = FALSE
    /\ IF canceld
       THEN /\ lastOp' = [op |-> how, task |-> t,
                          arg |-> IF how = "wait" THEN pending ELSE SENTINEL,
                          res |-> "CancelledError", val |-> SENTINEL]
            /\ UNCHANGED <<stored, returns>>
       ELSE IF stored = SENTINEL
       THEN /\ lastOp' = [op |-> how, task |-> t,
                          arg |-> IF how = "wait" THEN pending ELSE SENTINEL,
                          res |-> "AssertionError", val |-> SENTINEL]
            /\ UNCHANGED <<stored, returns>>
       ELSE /\ lastOp' = [op |-> how, task |-> t,
                          arg |-> IF how = "wait" THEN pending ELSE SENTINEL,
                          res |-> "value", val |-> stored]
            /\ stored' = SlotAfterReturn
            /\ returns' = returns + 1

\* Waiter.wait() up to its suspension point: mark waiting and enter
\* Event.wait(), which returns at once when the signal is already set and
\* otherwise parks the caller on a new future.
WaitCall(t) ==
    /\ component = "waiter"
    /\ pc[t] = "idle"
    /\ owed' = [owed EXCEPT ![t] = FALSE]
    /\ sawReject' = [sawReject EXCEPT ![t] = FALSE]
    /\ IF EventIsSet
       THEN /\ WaitTail(t, "wait")
            /\ UNCHANGED <<pc, waiters, ready>>
       ELSE /\ waiting' = TRUE
            /\ pc' = [pc EXCEPT ![t] = "blocked"]
            /\ waiters' = Append(waiters, t)
            /\ lastOp' = [op |-> "wait", task |-> t, arg |-> pending,
                          res |-> "suspended", val |-> SENTINEL]
            /\ UNCHANGED <<stored, ready, returns>>
    /\ pending' = SENTINEL
    /\ UNCHANGED <<predicate, ev_value, canceld, matched, delivered, prevCycle,
                   latest, skipped>>
    /\ WaiterFrame

\* The loop resumes the caller at the head of its ready queue.
Resume(t) ==
    /\ component = "waiter"
    /\ ready # <<>>
    /\ Head(ready) = t
    /\ ready' = Tail(ready)
    /\ waiters' = SelectSeq(waiters, LAMBDA u : u # t)
    /\ pc' = [pc EXCEPT ![t] = "idle"]
    /\ WaitTail(t, "resume")
    /\ UNCHANGED <<predicate, ev_value, canceld, matched, delivered, owed,
                   sawReject, prevCycle, pending, latest, skipped>>
    /\ WaiterFrame

\* The condition under which Waiter.cancel() delivers a cancellation.
CancelGuard_ignoring_canceld == waiting
CancelGuard == waiting /\ ~canceld

\* Waiter.cancel()
Cancel ==
    /\ component = "waiter"
    /\ IF CancelGuard
       THEN /\ canceld' = TRUE
            /\ EventSet
            /\ delivered' = TRUE
            /\ owed' = [t \in Callers |-> owed[t] \/ pc[t] # "idle"]
            /\ lastOp' = [op |-> "cancel", task |-> 0, arg |-> SENTINEL,
                          res |-> "True", val |-> SENTINEL]
       ELSE /\ UNCHANGED <<canceld, ev_value, pc, ready, delivered, owed>>
            /\ lastOp' = [op |-> "cancel", task |-> 0, arg |-> SENTINEL,
                          res |-> "False", val |-> SENTINEL]
    /\ UNCHANGED <<predicate, waiting, stored, waiters, matched, sawReject, prevCycle,
                   pending, latest, skipped, returns>>
    /\ WaiterFrame

\* Waiter._reset()
ResetFields_keeping_canceld ==
    /\ UNCHANGED canceld
    /\ waiting' = FALSE
    /\ stored' = SENTINEL
ResetFields ==
    /\ canceld' = FALSE
    /\ waiting' = FALSE
    /\ stored' = SENTINEL

\* Waiter.clear(): Event.clear() then _reset().  Futures of callers still
\* inside wait() are left as they are.
Clear ==
    /\ component = "waiter"
    /\ ev_value' = FALSE
    /\ ResetFields
    /\ matched' = {}
    /\ delivered' = FALSE
    /\ pending' = SENTINEL
    /\ latest' = SENTINEL
    /\ skipped' = {}
    /\ returns' = 0
    /\ prevCycle' = IF InWait # {} THEN "unfinished"
                    ELSE IF lastOp.op \in {"wait", "resume"} /\ lastOp.res = "CancelledError"
                    THEN "canceled"
                    ELSE IF lastOp.op \in {"wait", "resume"} /\ lastOp.res = "value"
                    THEN "satisfied"
                    ELSE "other"
    /\ lastOp' = [op |-> "clear", task |-> 0, arg |-> SENTINEL,
                  res |-> "None", val |-> SENTINEL]
    /\ UNCHANGED <<predicate, pc, waiters, ready, owed, sawReject>>
    /\ WaiterFrame

NextWaiter ==
    \/ \E v \in Values : Check(v)
    \/ \E t \in Callers : WaitCall(t)
    \/ \E t \in Callers : Resume(t)
    \/ Cancel
    \/ Clear

-----------------------------------------------------------------------------
(***************************************************************************)
(* Task supervisor: create_task(coro, exception_handler)                   *)
(***************************************************************************)
Units == 1..NumUnits

\* How a task can complete: by returning, by cancellation
\* (asyncio.CancelledError), with a fault derived from Exception, or with a
\* fault derived from BaseException only (SystemExit, KeyboardInterrupt, ...).
Outcomes == {"ok", "cancelled", "exception", "base"}

InitSupervisorState ==
    /\ ustate = [u \in Units |-> "none"]
    /\ outcome = [u \in Units |-> "none"]
    /\ callback = [u \in Units |-> "none"]
    /\ calls = [u \in Units |-> <<>>]

InitSupervisor ==
    /\ component = "supervisor"
    /\ InitSupervisorState

SupervisorFrame == UNCHANGED <<component, waiterVars, dispatchVars, codecVars>>

\* t = asyncio.create_task(coro); t.add_done_callback(result_handler)
CreateTask(u) ==
    /\ component = "supervisor"
    /\ ustate[u] = "none"
    /\ ustate' = [ustate EXCEPT ![u] = "running"]
    /\ UNCHANGED <<outcome, callback, calls>>
    /\ SupervisorFrame

\* The task completes; the loop schedules its done callbacks (call_soon).
Complete(u, o) ==
    /\ component = "supervisor"
    /\ ustate[u] = "running"
    /\ ustate' = [ustate EXCEPT ![u] = "done"]
    /\ outcome' = [outcome EXCEPT ![u] = o]
    /\ callback' = [callback EXCEPT ![u] = "scheduled"]
    /\ UNCHANGED calls
    /\ SupervisorFrame

\* The except clauses of result_handler around f.result(): CancelledError is
\* passed over, a fault caught by `except Exception` is handed to
\* exception_handler, anything else (no fault, or a fault that is not an
\* Exception) leaves the handler uncalled.
Reported_with_cancellation(o) == o \in {"exception", "cancelled"}
Reported(o) == o = "exception"

\* result_handler(f), run once by the loop after the task completed.
RunCallback(u) ==
    /\ component = "supervisor"
    /\ callback[u] = "scheduled"
    /\ callback' = [callback EXCEPT ![u] = "ran"]
    /\ calls' = IF Reported(outcome[u])
                THEN [calls EXCEPT ![u] = Append(@, [handle |-> u, fault |-> outcome[u]])]
                ELSE calls
    /\ UNCHANGED <<ustate, outcome>>
    /\ SupervisorFrame

NextSupervisor ==
    \/ \E u \in Units : CreateTask(u)
    \/ \E u \in Units, o \in Outcomes : Complete(u, o)
    \/ \E u \in Units : RunCallback(u)

-----------------------------------------------------------------------------
(***************************************************************************)
(* Dispatch registry: EventDispatcherObject                                *)
(***************************************************************************)
\* The protocol catalog (module spec): the Method classes declared in the
\* Class classes, each as <<class name, method name>>.
Catalog == {<<"Basic", "Ack">>, <<"Basic", "Publish">>, <<"Queue", "Declare">>}

\* str.lower() on the names of the catalog.
Lower == [Basic |-> "basic", Queue |-> "queue", Ack |-> "ack",
          Publish |-> "publish", Declare |-> "declare"]

\* f'_on_{class_name.lower()}_{method_name.lower()}'
CallbackName(m) == <<"_on", Lower[m[1]], Lower[m[2]]>>

\* _method_to_callback_name, built once in the class body.
method_to_callback_name == [m \in Catalog |-> CallbackName(m)]

\* An attribute that starts with the prefix and names no catalog method.
Misnamed == <<"_on", "basic", "akc">>
AttrNames == {method_to_callback_name[m] : m \in Catalog} \cup {Misnamed}

\* Attribute values: a bound method ("h", name, version), Python's None, or
\* no attribute of that name at all.
NoneHandler == <<"None">>
Absent == <<"absent">>
Handlers == {<<"h", n, k>> : n \in AttrNames, k \in 1..2}

\* Dispatch keys: the catalog's method types and keys that are none of them.
OtherKeys == {<<"Heartbeat", "">>, <<"Basic", "Nack">>}
Keys == Catalog \cup OtherKeys

\* Decoded events; `method` is what frame.get_key extracts.
Events == [id : 1..NumEvents, method : Keys]

\* Key functions a caller can pass: the default get_key, or one that maps
\* every event to one fixed key.
KeyFns == {<<"get_key">>, <<"const", <<"Basic", "Ack">>>>, <<"const", <<"Heartbeat", "">>>>}
Apply(f, e) == IF f[1] = "get_key" THEN e.method ELSE f[2]

NoDispatch == [op |-> "none", event |-> [id |-> 0, method |-> <<"", "">>],
               key |-> <<"", "">>, res |-> "none", handler |-> NoneHandler,
               carried |-> [id |-> 0, method |-> <<"", "">>]]

InitDispatchState ==
    /\ dphase = "new"
    /\ built_attrs = [n \in AttrNames |-> Absent]
    /\ dispatcher = <<>>
    /\ warned = {}
    /\ dlast = NoDispatch
    /\ dmissed = FALSE

\* The subclass instance about to be constructed declares any of the
\* handlers, each with its first version.
InitDispatch ==
    /\ component = "dispatch"
    /\ attrs \in [AttrNames -> {Absent, NoneHandler} \cup Handlers]
    /\ \A n \in AttrNames : attrs[n] \in {Absent, <<"h", n, 1>>}
    /\ InitDispatchState

DispatchFrame == UNCHANGED <<component, waiterVars, supervisorVars, codecVars>>

\* getattr(self, name, None)
GetAttr(a, n) == IF a[n] = Absent THEN NoneHandler ELSE a[n]

\* The first loop of __inspect_event_callbacks: one entry per catalog method.
BoundHandlers_declared_only(a) ==
    [m \in {k \in Catalog : a[method_to_callback_name[k]] # Absent}
        |-> a[method_to_callback_name[m]]]
BoundHandlers(a) ==
    [m \in Catalog |-> GetAttr(a, method_to_callback_name[m])]

\* The second loop: attributes that start with the prefix and are not the
\* conventional name of any catalog method get a warning.
WarnedNames(a) ==
    {n \in AttrNames : a[n] # Absent
                       /\ n[1] = "_on"
                       /\ n \notin {method_to_callback_name[m] : m \in Catalog}}

\* EventDispatcherObject.__init__
Construct ==
    /\ component = "dispatch"
    /\ dphase = "new"
    /\ dphase' = "built"
    /\ dispatcher' = BoundHandlers(attrs)
    /\ built_attrs' = attrs
    /\ warned' = WarnedNames(attrs)
    /\ UNCHANGED <<attrs, dlast, dmissed>>
    /\ DispatchFrame

\* Code outside the class assigns or deletes an attribute of the instance
\* after construction; the dispatcher is not rebuilt.
SetAttr(n, h) ==
    /\ component = "dispatch"
    /\ dphase = "built"
    /\ attrs[n] # h
    /\ attrs' = [attrs EXCEPT ![n] = h]
    /\ UNCHANGED <<dphase, built_attrs, dispatcher, warned, dlast, dmissed>>
    /\ DispatchFrame

\* _dispatch_event(event, apply): the lookup, with KeyError turned into
\* UnexpectedFrameError(event).
DispatchEvent(e, f) ==
    /\ component = "dispatch"
    /\ dphase = "built"
    /\ LET k == Apply(f, e)
       IN IF k \in DOMAIN dispatcher
          THEN /\ dlast' = [op |-> "dispatch", event |-> e, key |-> k,
                            res |-> "return", handler |-> dispatcher[k],
                            carried |-> NoDispatch.carried]
               /\ UNCHANGED dmissed
          ELSE /\ dlast' = [op |-> "dispatch", event |-> e, key |-> k,
                            res |-> "UnexpectedFrameError",
                            handler |-> NoneHandler, carried |-> e]
               /\ dmissed' = TRUE
    /\ UNCHANGED <<dphase, attrs, built_attrs, dispatcher, warned>>
    /\ DispatchFrame

NextDispatch ==
    \/ Construct
    \/ \E n \in AttrNames : \E h \in {Absent, <<"h", n, 2>>} : SetAttr(n, h)
    \/ \E e \in Events, f \in KeyFns : DispatchEvent(e, f)

-----------------------------------------------------------------------------
(***************************************************************************)
(* AMQP field/table codec (data.py): bytes, struct formats, UTF-8          *)
(***************************************************************************)
\* The largest short string, in octets (data.py:65).
ShortStringMax == 255

Byte == 0..255

\* n copies of x, as a sequence.
Rep(x, n) == [i \in 1..n |-> x]

Min(a, b) == IF a < b THEN a ELSE b

RECURSIVE Join(_)
\* b''.join(pieces)
Join(ps) ==
    IF Len(ps) = 0 THEN <<>>
    ELSE IF Len(ps) = 1 THEN ps[1]
    ELSE LET h == Len(ps) \div 2
         IN Join(SubSeq(ps, 1, h)) \o Join(SubSeq(ps, h + 1, Len(ps)))

\* encoded[a:b] for 0 <= a: Python clamps the slice to the buffer.
Slice(bs, a, b) == SubSeq(bs, a + 1, Min(b, Len(bs)))

\* ---- Python integers of any size: a sign and a big-endian magnitude
\* ---- without leading zero octets (zero is the empty magnitude).
RECURSIVE StripZeros(_)
StripZeros(bs) ==
    IF bs # <<>> /\ Head(bs) = 0 THEN StripZeros(Tail(bs)) ELSE bs

PyInt(neg, mag) == [t |-> "int", neg |-> neg /\ StripZeros(mag) # <<>>,
                    mag |-> StripZeros(mag)]

\* A small natural number as a magnitude.
RECURSIVE MagOf(_)
MagOf(n) == IF n = 0 THEN <<>> ELSE MagOf(n \div 256) \o <<n % 256>>

IntOf(n) == IF n < 0 THEN PyInt(TRUE, MagOf(-n)) ELSE PyInt(FALSE, MagOf(n))

\* a < b on magnitudes without leading zeros.
RECURSIVE MagLess(_, _)
MagLess(a, b) ==
    IF Len(a) # Len(b) THEN Len(a) < Len(b)
    ELSE IF a = <<>> THEN FALSE
    ELSE IF Head(a) # Head(b) THEN Head(a) < Head(b)
    ELSE MagLess(Tail(a), Tail(b))

\* x < y on Python integers.
IntLess(x, y) ==
    IF x.neg /\ ~y.neg THEN TRUE
    ELSE IF ~x.neg /\ y.neg THEN FALSE
    ELSE IF x.neg THEN MagLess(y.mag, x.mag)
    ELSE MagLess(x.mag, y.mag)

\* 2^(8w-1) and 2^(8w) - 1 as magnitudes.
HalfMag(w) == <<128>> \o Rep(0, w - 1)
FullMag(w) == Rep(255, w)

\* The magnitude padded with zero octets to w octets.
Pad(mag, w) == Rep(0, w - Len(mag)) \o mag

\* bs - 1 and bs + 1 on w-octet big-endian numbers (no borrow or carry out).
RECURSIVE DecBytes(_)
DecBytes(bs) ==
    LET n == Len(bs)
    IN IF bs[n] > 0 THEN SubSeq(bs, 1, n - 1) \o <<bs[n] - 1>>
       ELSE DecBytes(SubSeq(bs, 1, n - 1)) \o <<255>>
RECURSIVE IncBytes(_)
IncBytes(bs) ==
    LET n == Len(bs)
    IN IF bs[n] < 255 THEN SubSeq(bs, 1, n - 1) \o <<bs[n] + 1>>
       ELSE IncBytes(SubSeq(bs, 1, n - 1)) \o <<0>>
NotBytes(bs) == [i \in 1..Len(bs) |-> 255 - bs[i]]

\* Whether struct.pack accepts x for a signed / unsigned format of w octets.
FitsSigned(x, w) ==
    IF x.neg THEN ~MagLess(HalfMag(w), x.mag) ELSE MagLess(x.mag, HalfMag(w))
FitsUnsigned(x, w) == ~x.neg /\ Len(x.mag) <= w

\* struct.pack of a signed format ('>i', '>q'): two's complement, big-endian.
PackSigned(x, w) ==
    IF x.neg THEN NotBytes(DecBytes(Pad(x.mag, w))) ELSE Pad(x.mag, w)
\* struct.pack of an unsigned format ('B', '>I', '>Q').
PackUnsigned(x, w) == Pad(x.mag, w)

\* struct.unpack of an unsigned / signed format.
UnpackUnsigned(bs) == PyInt(FALSE, bs)
UnpackSigned(bs) ==
    IF bs[1] >= 128 THEN PyInt(TRUE, IncBytes(NotBytes(bs))) ELSE PyInt(FALSE, bs)

\* A length or offset of the model as a number: the value of up to four
\* octets, the first below 128.
RECURSIVE NatOf(_)
NatOf(bs) == IF bs = <<>> THEN 0 ELSE NatOf(SubSeq(bs, 1, Len(bs) - 1)) * 256 + bs[Len(bs)]

\* struct.pack('>I', n) and struct.pack('B', n) of a length.
PackLen(n, w) == Pad(MagOf(n), w)

\* ---- str and UTF-8
\* The octets of one code point under str.encode('utf-8').
Utf8Of(c) ==
    IF c < 128 THEN <<c>>
    ELSE IF c < 2048 THEN <<192 + (c \div 64), 128 + (c % 64)>>
    ELSE IF c < 65536
    THEN <<224 + (c \div 4096), 128 + ((c \div 64) % 64), 128 + (c % 64)>>
    ELSE <<240 + (c \div 262144), 128 + ((c \div 4096) % 64),
           128 + ((c \div 64) % 64), 128 + (c % 64)>>

IsSurrogate(c) == c >= 55296 /\ c <= 57343

RECURSIVE Utf8Bytes(_)
Utf8Bytes(cps) ==
    IF Len(cps) = 0 THEN <<>>
    ELSE IF Len(cps) = 1 THEN Utf8Of(cps[1])
    ELSE LET h == Len(cps) \div 2
         IN Utf8Bytes(SubSeq(cps, 1, h)) \o Utf8Bytes(SubSeq(cps, h + 1, Len(cps)))

\* value.encode('UTF-8'): UnicodeEncodeError on a lone surrogate.
Utf8Encode(cps) ==
    IF \E i \in 1..Len(cps) : IsSurrogate(cps[i])
    THEN [ok |-> FALSE, bs |-> <<>>]
    ELSE [ok |-> TRUE, bs |-> Utf8Bytes(cps)]

IsCont(b) == b >= 128 /\ b <= 191

\* Whether ch is the strict UTF-8 encoding of one code point: shortest form,
\* no surrogate, nothing above U+10FFFF.
ValidChunk(ch) ==
    LET n == Len(ch)
        b == ch[1]
    IN /\ n \in 1..4
       /\ \A i \in 2..n : IsCont(ch[i])
       /\ \/ n = 1 /\ b < 128
          \/ n = 2 /\ b >= 194 /\ b <= 223
          \/ n = 3 /\ b >= 224 /\ b <= 239
                   /\ (b = 224 => ch[2] >= 160)
                   /\ (b = 237 => ch[2] <= 159)
          \/ n = 4 /\ b >= 240 /\ b <= 244
                   /\ (b = 240 => ch[2] >= 144)
                   /\ (b = 244 => ch[2] <= 143)

ChunkValue(ch) ==
    LET n == Len(ch)
    IN IF n = 1 THEN ch[1]
       ELSE IF n = 2 THEN (ch[1] - 192) * 64 + (ch[2] - 128)
       ELSE IF n = 3
       THEN (ch[1] - 224) * 4096 + (ch[2] - 128) * 64 + (ch[3] - 128)
       ELSE (ch[1] - 240) * 262144 + (ch[2] - 128) * 4096
            + (ch[3] - 128) * 64 + (ch[4] - 128)

\* value.decode('utf8'): the code points, or UnicodeDecodeError.  A character
\* starts at every octet that is no continuation octet.
Utf8Decode(bs) ==
    LET starts == {i \in 1..Len(bs) : ~IsCont(bs[i])}
        nth(k) == CHOOSE i \in starts : Cardinality({j \in starts : j <= i}) = k
        stop(i) == IF \E j \in starts : j > i
                   THEN (CHOOSE j \in starts : j > i /\ \A l \in starts : l > i => j <= l) - 1
                   ELSE Len(bs)
        chunk(i) == SubSeq(bs, i, stop(i))
    IN IF bs = <<>> THEN [ok |-> TRUE, cps |-> <<>>]
       ELSE IF 1 \notin starts \/ \E i \in starts : ~ValidChunk(chunk(i))
       THEN [ok |-> FALSE, cps |-> <<>>]
       ELSE [ok |-> TRUE,
             cps |-> [k \in 1..Cardinality(starts) |-> ChunkValue(chunk(nth(k)))]]

\* ---- Python values handed to the encoders
\* [t |-> "bool", b], [t |-> "int", neg, mag], [t |-> "str", cps],
\* [t |-> "bytes", bs], [t |-> "decimal", m, e, nan] (m * 10^e, or NaN),
\* [t |-> "datetime", secs, micro, aware], [t |-> "list", items],
\* [t |-> "dict", items] (insertion-ordered <<[k, v], ...>>), [t |-> "none"],
\* [t |-> "float", bits] (no encoder accepts it).
PyBool(b) == [t |-> "bool", b |-> b]
PyStr(cps) == [t |-> "str", cps |-> cps]
PyBytes(bs) == [t |-> "bytes", bs |-> bs]
PyDecimal(m, e) == [t |-> "decimal", m |-> m, e |-> e, nan |-> FALSE]
PyDateTime(secs, micro, aware) ==
    [t |-> "datetime", secs |-> secs, micro |-> micro, aware |-> aware]
PyList(items) == [t |-> "list", items |-> items]
PyDict(items) == [t |-> "dict", items |-> items]
PyNone == [t |-> "none"]

\* The type tags, as octets.
Tag == [t |-> 116, b |-> 98, B |-> 66, U |-> 85, u |-> 117, I |-> 73, i |-> 105,
        L |-> 76, l |-> 108, f |-> 102, d |-> 100, D |-> 68, s |-> 115,
        S |-> 83, x |-> 120, A |-> 65, T |-> 84, F |-> 70, V |-> 86]

\* What an encoder hands back: the pieces as it left them, and the size it
\* returned or the exception it raised.
EncOk(pieces, size) == [ok |-> TRUE, pieces |-> pieces, size |-> size, err |-> ""]
EncFail(pieces, err) == [ok |-> FALSE, pieces |-> pieces, size |-> 0, err |-> err]

\* `length > 255` (data.py:65)
TooLong_from_255(length) == length >= ShortStringMax
TooLong(length) == length > ShortStringMax

\* encode_short_string(pieces, value)
EncodeShortString(pieces, value) ==
    LET e == IF value.t = "str" THEN Utf8Encode(value.cps)
             ELSE [ok |-> TRUE, bs |-> value.bs]
        length == Len(e.bs)
    IN IF ~e.ok THEN EncFail(pieces, "UnicodeEncodeError")
       ELSE IF TooLong(length) THEN EncFail(pieces, "ShortStringTooLong")
       ELSE EncOk(pieces \o <<PackLen(length, 1), e.bs>>, 1 + length)

\* The placeholder encode_table appends (None) until the size is known.
Placeholder == <<-1>>

\* `-(2 ** 64 / 2) < value < (2 ** 64 / 2) - 1` (data.py:132).  Both bounds
\* are floats: 2.0^63 - 1 rounds to 2.0^63, and Python compares an int with a
\* float exactly, so the window is -2^63 < value < 2^63.
WindowLow == PyInt(TRUE, HalfMag(8))
WindowHigh == PyInt(FALSE, HalfMag(8))
InWindow_never(v) == FALSE
InWindow(v) == IntLess(WindowLow, v) /\ IntLess(v, WindowHigh)

\* Decimal.normalize(): no trailing zeros in the coefficient; zero is 0E+0.
RECURSIVE Normalize(_)
Normalize(d) ==
    IF d.m = 0 THEN [d EXCEPT !.e = 0]
    ELSE IF d.m % 10 = 0 THEN Normalize([d EXCEPT !.m = d.m \div 10, !.e = d.e + 1])
    ELSE d

RECURSIVE Pow10(_)
Pow10(n) == IF n = 0 THEN 1 ELSE 10 * Pow10(n - 1)

\* The integer encoding of encode_value (data.py:131-145).
EncodeInt(pieces, value) ==
    IF InWindow(value)
    THEN EncOk(Append(pieces, <<Tag.l>> \o PackSigned(value, 8)), 9)
    ELSE IF FitsSigned(value, 4)
    THEN EncOk(Append(pieces, <<Tag.I>> \o PackSigned(value, 4)), 5)
    ELSE IF FitsSigned(value, 8)
    THEN EncOk(Append(pieces, <<Tag.l>> \o PackSigned(value, 8)), 9)
    ELSE EncFail(pieces, "struct.error")

\* The Decimal encoding of encode_value (data.py:146-155).
EncodeDecimal(pieces, value) ==
    LET n == Normalize(value)
        decimals == IF n.e < 0 THEN -n.e ELSE 0
        raw == IntOf(IF n.e < 0 THEN n.m ELSE n.m * Pow10(n.e))
    IN IF value.nan THEN EncFail(pieces, "TypeError")
       ELSE IF decimals > 255 \/ ~FitsSigned(raw, 4)
       THEN EncFail(pieces, "struct.error")
       ELSE EncOk(Append(pieces, <<Tag.D>> \o PackLen(decimals, 1)
                                  \o PackSigned(raw, 4)), 6)

\* `len(piece)` (data.py:168): the prefix written before a list's elements.
ArrayPrefix_count(items, piece) == Len(items)
ArrayPrefix(items, piece) == Len(piece)

RECURSIVE EncodeValue(_, _)
RECURSIVE EncodeTable(_, _)
RECURSIVE EncodeItems(_, _)
RECURSIVE EncodeElements(_, _)

\* The for loop of encode_table (data.py:100-102); acc.size is tablesize.
EncodeItems(acc, items) ==
    IF items = <<>> THEN acc
    ELSE LET k == EncodeShortString(acc.pieces, Head(items).k)
         IN IF ~k.ok THEN k
            ELSE LET v == EncodeValue(k.pieces, Head(items).v)
                 IN IF ~v.ok THEN v
                    ELSE EncodeItems(EncOk(v.pieces, acc.size + k.size + v.size),
                                     Tail(items))

\* encode_table(pieces, table)
EncodeTable(pieces, table) ==
    LET items == IF table.t = "dict" THEN table.items ELSE <<>>
        length_index == Len(pieces) + 1
        r == EncodeItems(EncOk(Append(pieces, Placeholder), 0), items)
    IN IF ~r.ok THEN r
       ELSE EncOk([r.pieces EXCEPT ![length_index] = PackLen(r.size, 4)],
                  r.size + 4)

\* The for loop over a list value (data.py:165-166), filling list_pieces.
EncodeElements(acc, items) ==
    IF items = <<>> THEN acc
    ELSE LET v == EncodeValue(acc.pieces, Head(items))
         IN IF ~v.ok THEN v
            ELSE EncodeElements(v, Tail(items))

\* encode_value(pieces, value)
EncodeValue(pieces, value) ==
    IF value.t = "str"
    THEN LET e == Utf8Encode(value.cps)
         IN IF ~e.ok THEN EncFail(pieces, "UnicodeEncodeError")
            ELSE EncOk(pieces \o <<<<Tag.S>> \o PackLen(Len(e.bs), 4), e.bs>>,
                       5 + Len(e.bs))
    ELSE IF value.t = "bytes"
    THEN EncOk(pieces \o <<<<Tag.x>> \o PackLen(Len(value.bs), 4), value.bs>>,
               5 + Len(value.bs))
    ELSE IF value.t = "bool"
    THEN EncOk(Append(pieces, <<Tag.t, IF value.b THEN 1 ELSE 0>>), 2)
    ELSE IF value.t = "int"
    THEN EncodeInt(pieces, value)
    ELSE IF value.t = "decimal"
    THEN EncodeDecimal(pieces, value)
    ELSE IF value.t = "datetime"
    THEN IF FitsUnsigned(value.secs, 8)
         THEN EncOk(Append(pieces, <<Tag.T>> \o PackUnsigned(value.secs, 8)), 9)
         ELSE EncFail(pieces, "struct.error")
    ELSE IF value.t = "dict"
    THEN LET r == EncodeTable(Append(pieces, <<Tag.F>>), value)
         IN IF ~r.ok THEN r ELSE EncOk(r.pieces, 1 + r.size)
    ELSE IF value.t = "list"
    THEN LET r == EncodeElements(EncOk(<<>>, 0), value.items)
             piece == Join(r.pieces)
         IN IF ~r.ok THEN EncFail(pieces, r.err)
            ELSE EncOk(pieces \o <<<<Tag.A>>
                                    \o PackLen(ArrayPrefix(value.items, piece), 4),
                                    piece>>,
                       5 + Len(piece))
    ELSE IF value.t = "none"
    THEN EncOk(Append(pieces, <<Tag.V>>), 1)
    ELSE EncFail(pieces, "UnsupportedAMQPFieldException")

\* ---- Decoding
\* What a decoder hands back: the value and the new offset, or the exception.
DecOk(val, off) == [ok |-> TRUE, val |-> val, off |-> off, err |-> ""]
DecFail(err) == [ok |-> FALSE, val |-> PyNone, off |-> 0, err |-> err]

\* struct.unpack_from needs w octets at offset, else struct.error.
CanUnpack(encoded, offset, w) == offset + w <= Len(encoded)
Octets(encoded, offset, w) == SubSeq(encoded, offset + 1, offset + w)

\* A Python integer of at most 32 bits as a number of the model.
SmallOf(x) == IF x.neg THEN -NatOf(x.mag) ELSE NatOf(x.mag)

\* bytes.decode('utf8') with the fallback to the raw octets.
TextOrBytes(raw) ==
    LET d == Utf8Decode(raw)
    IN IF d.ok THEN PyStr(d.cps) ELSE PyBytes(raw)

\* decode_short_string(encoded, offset)
DecodeShortString(encoded, offset) ==
    IF ~CanUnpack(encoded, offset, 1) THEN DecFail("struct.error")
    ELSE LET length == encoded[offset + 1]
         IN DecOk(TextOrBytes(Slice(encoded, offset + 1, offset + 1 + length)),
                  offset + 1 + length)

\* The largest timestamp datetime.utcfromtimestamp accepts:
\* 9999-12-31 23:59:59, 253402300799 seconds.
MaxTimestamp == PyInt(FALSE, <<58, 255, 244, 65, 127>>)
\* Beyond it the call raises (CPython on 64-bit Linux): ValueError while the
\* C library can still convert the seconds (up to 67768036191676799), OSError
\* up to 2^63 - 1, OverflowError from 2^63 on.
MaxGmtime == PyInt(FALSE, <<240, 194, 171, 124, 84, 169, 127>>)
TimestampFault(secs) ==
    IF ~FitsSigned(secs, 8) THEN "OverflowError"
    ELSE IF IntLess(MaxGmtime, secs) THEN "OSError"
    ELSE "ValueError"

\* int(struct.unpack_from('>f' or '>d', ...)): the float truncated to an
\* integer.  With all exponent bits set int() raises: OverflowError for an
\* infinity (no fraction bit set), ValueError for a NaN; the integer of any
\* other bit pattern is kept as that pattern.
FloatTrunc(bs) ==
    LET expAllOnes == IF Len(bs) = 4
                      THEN bs[1] % 128 = 127 /\ bs[2] >= 128
                      ELSE bs[1] % 128 = 127 /\ bs[2] >= 240
        fraction == IF Len(bs) = 4
                    THEN <<bs[2] % 128>> \o SubSeq(bs, 3, 4)
                    ELSE <<bs[2] % 16>> \o SubSeq(bs, 3, 8)
    IN IF expAllOnes
       THEN IF StripZeros(fraction) = <<>> THEN DecFail("OverflowError")
            ELSE DecFail("ValueError")
       ELSE DecOk([t |-> "truncated", bits |-> bs], 0)

\* result[key] = value on an insertion-ordered dict.
DictSet(items, k, v) ==
    IF \E i \in 1..Len(items) : items[i].k = k
    THEN [i \in 1..Len(items) |->
             IF items[i].k = k THEN [k |-> k, v |-> v] ELSE items[i]]
    ELSE Append(items, [k |-> k, v |-> v])

\* A fixed-width integer read of decode_value: unpack w octets, signed or
\* not, and advance the offset by w.
DecodeFixed(encoded, offset, w, signed) ==
    IF ~CanUnpack(encoded, offset, w) THEN DecFail("struct.error")
    ELSE DecOk(IF signed THEN UnpackSigned(Octets(encoded, offset, w))
               ELSE UnpackUnsigned(Octets(encoded, offset, w)),
               offset + w)

\* `while offset < limit` (data.py:191) and `while offset < offset_end`
\* (data.py:305).
LoopContinues_inclusive(offset, limit) == offset <= limit
LoopContinues(offset, limit) == offset < limit

RECURSIVE DecodeValue(_, _)
RECURSIVE DecodeTable(_, _)
RECURSIVE TableLoop(_, _, _, _)
RECURSIVE ArrayLoop(_, _, _, _)

\* The while loop of decode_table (data.py:191-194).
TableLoop(encoded, offset, limit, result) ==
    IF ~LoopContinues(offset, limit) THEN DecOk(PyDict(result), offset)
    ELSE LET k == DecodeShortString(encoded, offset)
         IN IF ~k.ok THEN k
            ELSE LET v == DecodeValue(encoded, k.off)
                 IN IF ~v.ok THEN v
                    ELSE TableLoop(encoded, v.off, limit,
                                   DictSet(result, k.val, v.val))

\* decode_table(encoded, offset)
DecodeTable(encoded, offset) ==
    IF ~CanUnpack(encoded, offset, 4) THEN DecFail("struct.error")
    ELSE LET tablesize == NatOf(Octets(encoded, offset, 4))
             limit == offset + 4 + tablesize
         IN TableLoop(encoded, offset + 4, limit, <<>>)

\* The while loop of the field array (data.py:305-307).
ArrayLoop(encoded, offset, offset_end, value) ==
    IF ~LoopContinues(offset, offset_end) THEN DecOk(PyList(value), offset)
    ELSE LET v == DecodeValue(encoded, offset)
         IN IF ~v.ok THEN v
            ELSE ArrayLoop(encoded, v.off, offset_end, Append(value, v.val))

\* The integer tags of decode_value and how each is unpacked:
\* <<octets, signed>>.
FixedFormat == [b |-> <<1, FALSE>>, B |-> <<1, TRUE>>, U |-> <<2, TRUE>>,
                u |-> <<2, FALSE>>, I |-> <<4, TRUE>>, i |-> <<4, FALSE>>,
                L |-> <<8, TRUE>>, l |-> <<8, FALSE>>, s |-> <<2, TRUE>>]

\* decode_value(encoded, offset)
DecodeValue(encoded, offset) ==
    LET kind == Slice(encoded, offset, offset + 1)
        o == offset + 1
        k == kind[1]
    IN IF kind = <<>> THEN DecFail("InvalidFieldTypeException")
       ELSE IF k = Tag.t
       THEN IF ~CanUnpack(encoded, o, 1) THEN DecFail("struct.error")
            ELSE DecOk(PyBool(encoded[o + 1] # 0), o + 1)
       ELSE IF \E n \in DOMAIN FixedFormat : Tag[n] = k
       THEN LET n == CHOOSE n \in DOMAIN FixedFormat : Tag[n] = k
            IN DecodeFixed(encoded, o, FixedFormat[n][1], FixedFormat[n][2])
       ELSE IF k = Tag.f \/ k = Tag.d
       THEN LET w == IF k = Tag.f THEN 4 ELSE 8
            IN IF ~CanUnpack(encoded, o, w) THEN DecFail("struct.error")
               ELSE LET r == FloatTrunc(Octets(encoded, o, w))
                    IN IF ~r.ok THEN r ELSE DecOk(r.val, o + w)
       ELSE IF k = Tag.D
       THEN IF ~CanUnpack(encoded, o, 1) \/ ~CanUnpack(encoded, o + 1, 4)
            THEN DecFail("struct.error")
            ELSE LET decimals == encoded[o + 1]
                     raw == UnpackSigned(Octets(encoded, o + 1, 4))
                 IN DecOk(PyDecimal(SmallOf(raw), -decimals), o + 5)
       ELSE IF k = Tag.S \/ k = Tag.x
       THEN IF ~CanUnpack(encoded, o, 4) THEN DecFail("struct.error")
            ELSE LET length == NatOf(Octets(encoded, o, 4))
                     raw == Slice(encoded, o + 4, o + 4 + length)
                 IN DecOk(IF k = Tag.S THEN TextOrBytes(raw) ELSE PyBytes(raw),
                          o + 4 + length)
       ELSE IF k = Tag.A
       THEN IF ~CanUnpack(encoded, o, 4) THEN DecFail("struct.error")
            ELSE LET length == NatOf(Octets(encoded, o, 4))
                 IN ArrayLoop(encoded, o + 4, o + 4 + length, <<>>)
       ELSE IF k = Tag.T
       THEN IF ~CanUnpack(encoded, o, 8) THEN DecFail("struct.error")
            ELSE LET secs == UnpackUnsigned(Octets(encoded, o, 8))
                 IN IF IntLess(MaxTimestamp, secs) THEN DecFail(TimestampFault(secs))
                    ELSE DecOk(PyDateTime(secs, 0, FALSE), o + 8)
       ELSE IF k = Tag.F
       THEN DecodeTable(encoded, o)
       ELSE IF k = Tag.V
       THEN DecOk(PyNone, o)
       ELSE DecFail("InvalidFieldTypeException")

\* ---- Python's == on the values above
RECURSIVE PyEq(_, _)
PyEq(a, b) ==
    IF a.t # b.t THEN FALSE
    ELSE IF a.t = "decimal"
    THEN ~a.nan /\ ~b.nan /\ Normalize(a) = Normalize(b)
    ELSE IF a.t = "datetime"
    THEN a.aware = b.aware /\ a.secs = b.secs /\ a.micro = b.micro
    ELSE IF a.t = "list"
    THEN /\ Len(a.items) = Len(b.items)
         /\ \A i \in 1..Len(a.items) : PyEq(a.items[i], b.items[i])
    ELSE IF a.t = "dict"
    THEN /\ Len(a.items) = Len(b.items)
         /\ \A i \in 1..Len(a.items) :
               \E j \in 1..Len(b.items) :
                   /\ a.items[i].k = b.items[j].k
                   /\ PyEq(a.items[i].v, b.items[j].v)
    ELSE a = b

-----------------------------------------------------------------------------
(***************************************************************************)
(* The codec's callers: one encoder call on an input, then the matching    *)
(* decoder call on the octets the encoder produced.                        *)
(***************************************************************************)
\* Integers around the 32-bit and 64-bit limits.
IntInputs ==
    {IntOf(0), IntOf(1), IntOf(42), IntOf(-1), IntOf(-42), IntOf(255),
     IntOf(2147483647), PyInt(FALSE, HalfMag(4)), PyInt(TRUE, HalfMag(4)),
     PyInt(TRUE, IncBytes(HalfMag(4))),
     PyInt(FALSE, DecBytes(HalfMag(8))), PyInt(FALSE, DecBytes(DecBytes(HalfMag(8)))),
     PyInt(FALSE, HalfMag(8)), PyInt(TRUE, DecBytes(HalfMag(8))),
     PyInt(TRUE, HalfMag(8)), PyInt(TRUE, IncBytes(HalfMag(8))),
     PyInt(FALSE, FullMag(8)), PyInt(FALSE, <<1>> \o Rep(0, 8))}

\* "", "a", "é", "€", an emoji, a mixed string, and a lone surrogate.
StrInputs ==
    {PyStr(<<>>), PyStr(<<97>>), PyStr(<<233>>), PyStr(<<8364>>),
     PyStr(<<128512>>), PyStr(<<97, 233, 8364>>), PyStr(<<55296>>)}

BytesInputs ==
    {PyBytes(<<>>), PyBytes(<<0>>), PyBytes(<<97>>), PyBytes(<<255, 254>>),
     PyBytes(<<195, 169>>)}

\* 3.14, -0.05, 100, 1E+2, 0.00, 0, 1E-255, 1E-256, 7, -7 and NaN.
DecimalInputs ==
    {PyDecimal(314, -2), PyDecimal(-5, -2), PyDecimal(100, 0), PyDecimal(1, 2),
     PyDecimal(0, -2), PyDecimal(0, 0), PyDecimal(1, -255), PyDecimal(1, -256),
     PyDecimal(7, 0), PyDecimal(-7, 0),
     [t |-> "decimal", m |-> 0, e |-> 0, nan |-> TRUE]}

\* Naive and aware datetimes, by the seconds since the epoch of their UTC
\* instant (negative before 1970) and their microseconds.
DateTimeInputs ==
    {PyDateTime(IntOf(0), 0, FALSE), PyDateTime(IntOf(1577836800), 0, FALSE),
     PyDateTime(IntOf(1577836800), 5, FALSE), PyDateTime(IntOf(1577836800), 0, TRUE),
     PyDateTime(IntOf(-315619200), 0, FALSE), PyDateTime(MaxTimestamp, 0, FALSE)}

ScalarInputs ==
    IntInputs \cup StrInputs \cup BytesInputs \cup DecimalInputs
    \cup DateTimeInputs
    \cup {PyBool(TRUE), PyBool(FALSE), PyNone, [t |-> "float", bits |-> <<63, 192, 0, 0>>]}

\* The values put inside lists and tables.
Elems == {IntOf(42), IntOf(-1), PyStr(<<233>>), PyBool(TRUE), PyNone}

\* The table keys "a" and "k€".
DictKeys == {PyStr(<<97>>), PyStr(<<107, 8364>>)}

SeqsUpTo(S, n) == UNION {[1..k -> S] : k \in 0..n}

DistinctKeys(items) ==
    \A i, j \in 1..Len(items) : i # j => items[i].k # items[j].k

ListInputs == {PyList(s) : s \in SeqsUpTo(Elems, MaxLen)}

DictInputs ==
    {PyDict(s) : s \in {q \in SeqsUpTo([k : DictKeys, v : Elems],
                                       Min(MaxLen, Cardinality(DictKeys))) :
                           DistinctKeys(q)}}

\* A list or a table holding one list or table.
NestedLists == {PyList(<<x>>) : x \in ListInputs \cup DictInputs}
NestedDicts ==
    {PyDict(<<[k |-> PyStr(<<97>>), v |-> x]>>) : x \in ListInputs \cup DictInputs}

\* Three levels: {"a": [{"k€": [42, -1]}]} and [[{"a": True}], None].
DeepInputs ==
    {PyDict(<<[k |-> PyStr(<<97>>),
               v |-> PyList(<<PyDict(<<[k |-> PyStr(<<107, 8364>>),
                                        v |-> PyList(<<IntOf(42), IntOf(-1)>>)]>>)>>)]>>),
     PyList(<<PyList(<<PyDict(<<[k |-> PyStr(<<97>>), v |-> PyBool(TRUE)]>>)>>),
              PyNone>>),
     PyDict(<<[k |-> PyStr(<<97>>),
               v |-> PyList(<<PyDict(<<[k |-> PyStr(<<107, 8364>>),
                                        v |-> PyList(<<IntOf(42), PyNone>>)]>>)>>)]>>)}

ValueInputs ==
    ScalarInputs \cup ListInputs \cup DictInputs \cup NestedLists
    \cup NestedDicts \cup DeepInputs

TableInputs ==
    DictInputs \cup NestedDicts \cup {x \in DeepInputs : x.t = "dict"} \cup {PyNone}

\* Short strings at the limit, for code points of one to four octets, as str
\* and as bytes.
ShortStringInputs ==
    {PyStr(Rep(c, n)) :
        c \in {97}, n \in {0, 1, ShortStringMax - 1, ShortStringMax, ShortStringMax + 1}}
    \cup {PyStr(Rep(233, n)) : n \in {ShortStringMax \div 2, ShortStringMax \div 2 + 1}}
    \cup {PyStr(Rep(8364, n)) : n \in {ShortStringMax \div 3, ShortStringMax \div 3 + 1}}
    \cup {PyStr(Rep(128512, n)) : n \in {ShortStringMax \div 4, ShortStringMax \div 4 + 1}}
    \cup {PyBytes(Rep(255, n)) : n \in {1, ShortStringMax, ShortStringMax + 1}}
    \cup {PyStr(<<97, 233, 8364>>), PyStr(<<55296>>)}

\* The pieces list handed to the encoder: empty, or holding earlier pieces.
PiecesInputs == {<<>>, <<<<206>>, <<0, 9>>>>}

\* A length prefix far beyond any buffer of the model: 0x7fffff00.
FarPrefix == <<127, 255, 255, 0>>

\* Buffers handed to decode_table: well-formed tables, tables whose prefix
\* is shorter or longer than their pairs, truncated and malformed ones.
TableBuffers ==
    {<<0, 0, 0, 0>>,
     <<0, 0, 0, 4, 1, 97, 116, 1>>,
     <<0, 0, 0, 1, 1, 97, 116, 1>>,
     <<0, 0, 0, 8, 1, 97, 116, 1>>,
     <<0, 0, 0, 3, 1, 97, 86, 1, 98, 86>>,
     <<0, 0, 0, 6, 1, 97, 116, 1, 1, 97, 116, 0>>,
     <<0, 0>>,
     <<0, 0, 0, 2, 5, 97>>,
     <<0, 0, 0, 3, 1, 97, 255>>,
     <<0, 0, 0, 9, 1, 97, 65, 0, 0, 0, 2, 86, 86>>,
     <<0, 0, 0, 9, 1, 97, 65, 0, 0, 0, 1, 116, 1>>,
     <<0, 0, 0, 7, 0, 70, 0, 0, 0, 9, 1, 97, 116, 1>>,
     <<0, 0, 0, 2, 1, 255, 86>>,
     FarPrefix \o <<1, 97, 86, 1, 98, 86>>,
     <<0, 0, 0, 9>> \o <<1, 97, 83>> \o FarPrefix \o <<97, 98>>}

\* Buffers handed to decode_value: one of every kind, arrays whose prefix is
\* shorter or longer than their elements, truncated and unknown kinds.
ValueBuffers ==
    {<<>>, <<255>>, <<86>>, <<116, 2>>, <<116>>,
     <<98, 255>>, <<66, 255>>, <<85, 255, 254>>, <<117, 255, 254>>,
     <<73, 255, 255, 255, 249>>, <<105, 255, 255, 255, 249>>, <<73, 0, 0>>,
     <<76>> \o Rep(255, 8), <<108>> \o Rep(255, 8), <<115, 128, 0>>,
     <<102, 63, 192, 0, 0>>, <<102, 127, 128, 0, 0>>,
     <<100, 64, 9, 33, 251, 84, 68, 45, 24>>, <<100, 127, 248, 0, 0, 0, 0, 0, 0>>,
     <<68, 2, 0, 0, 1, 58>>, <<68, 0, 255, 255, 255, 249>>, <<68, 2>>,
     <<83, 0, 0, 0, 2, 195, 169>>, <<83, 0, 0, 0, 2, 255, 254>>,
     <<83, 0, 0, 0, 9, 97>>, <<120, 0, 0, 0, 2, 195, 169>>,
     <<84, 0, 0, 0, 0, 94, 11, 225, 0>>, <<84>> \o Rep(255, 8),
     <<84, 0, 0, 0, 59, 0, 0, 0, 0>>, <<84, 1>> \o Rep(0, 7),
     <<65, 0, 0, 0, 0>>,
     <<65, 0, 0, 0, 2, 86, 86, 86>>,
     <<65, 0, 0, 0, 1, 116, 1>>,
     <<65, 0, 0>>,
     <<65, 0, 0, 0, 3, 86, 255, 86>>,
     <<65, 0, 0, 0, 7, 65, 0, 0, 0, 2, 86, 86>>,
     <<65>> \o FarPrefix \o <<86, 86>>,
     <<65, 0, 0, 0, 7, 83>> \o FarPrefix \o <<97, 98>>,
     <<70, 0, 0, 0, 4, 1, 97, 116, 1>>,
     <<70, 0, 0, 0, 1, 1, 97, 116, 1>>,
     <<70, 0>>}

\* A buffer and the offset decoding starts at: 0, and any later offset, up
\* to one past the end, from which the buffer holds no octet above 127, so
\* that a length prefix read from there on is a number of the model (below
\* 2^31).
StartOffsets(bs) ==
    {0} \cup {off \in 1..Len(bs) + 1 : \A i \in off + 1..Len(bs) : bs[i] < 128}
DecodeInput(bs, off) == [t |-> "buffer", bs |-> bs, off |-> off]
DecodeInputs(buffers) ==
    UNION {{DecodeInput(bs, off) : off \in StartOffsets(bs)} : bs \in buffers}

NoEnc == EncFail(<<>>, "not called")
NoDec == DecFail("not called")
NoOffset == -1

IdleCodec ==
    /\ cop = "none"
    /\ carg = PyNone
    /\ cpieces0 = <<>>
    /\ cphase = "input"
    /\ cenc = NoEnc
    /\ cdec = NoDec
    /\ dlimit = 0
    /\ dprev = NoOffset

InitCodec ==
    /\ component = "codec"
    /\ cop \in {"encode_value", "encode_table", "encode_short_string",
                "decode_value", "decode_table"}
    /\ carg \in IF cop = "encode_value" THEN ValueInputs
                ELSE IF cop = "encode_table" THEN TableInputs
                ELSE IF cop = "encode_short_string" THEN ShortStringInputs
                ELSE IF cop = "decode_value" THEN DecodeInputs(ValueBuffers)
                ELSE DecodeInputs(TableBuffers)
    /\ cpieces0 \in IF cop \in {"decode_value", "decode_table"} THEN {<<>>}
                    ELSE PiecesInputs
    /\ cphase = "input"
    /\ cenc = NoEnc
    /\ cdec = NoDec
    /\ dlimit = 0
    /\ dprev = NoOffset

CodecFrame == UNCHANGED <<component, waiterVars, supervisorVars, dispatchVars>>

CallEncodeValue ==
    /\ component = "codec" /\ cop = "encode_value" /\ cphase = "input"
    /\ cenc' = EncodeValue(cpieces0, carg)
    /\ cphase' = "encoded"
    /\ UNCHANGED <<cop, carg, cpieces0, cdec, dlimit, dprev>>
    /\ CodecFrame

CallEncodeTable ==
    /\ component = "codec" /\ cop = "encode_table" /\ cphase = "input"
    /\ cenc' = EncodeTable(cpieces0, carg)
    /\ cphase' = "encoded"
    /\ UNCHANGED <<cop, carg, cpieces0, cdec, dlimit, dprev>>
    /\ CodecFrame

CallEncodeShortString ==
    /\ component = "codec" /\ cop = "encode_short_string" /\ cphase = "input"
    /\ cenc' = EncodeShortString(cpieces0, carg)
    /\ cphase' = "encoded"
    /\ UNCHANGED <<cop, carg, cpieces0, cdec, dlimit, dprev>>
    /\ CodecFrame

\* The frame the encoder's caller assembles, and where the encoder's own
\* octets start in it.
Encoded == Join(cenc.pieces)
StartOffset == Len(Join(cpieces0))

CallDecodeValue ==
    /\ component = "codec" /\ cop = "encode_value" /\ cphase = "encoded"
    /\ cenc.ok
    /\ cdec' = DecodeValue(Encoded, StartOffset)
    /\ cphase' = "decoded"
    /\ UNCHANGED <<cop, carg, cpieces0, cenc, dlimit, dprev>>
    /\ CodecFrame

CallDecodeTable ==
    /\ component = "codec" /\ cop = "encode_table" /\ cphase = "encoded"
    /\ cenc.ok
    /\ cdec' = DecodeTable(Encoded, StartOffset)
    /\ cphase' = "decoded"
    /\ UNCHANGED <<cop, carg, cpieces0, cenc, dlimit, dprev>>
    /\ CodecFrame

CallDecodeShortString ==
    /\ component = "codec" /\ cop = "encode_short_string" /\ cphase = "encoded"
    /\ cenc.ok
    /\ cdec' = DecodeShortString(Encoded, StartOffset)
    /\ cphase' = "decoded"
    /\ UNCHANGED <<cop, carg, cpieces0, cenc, dlimit, dprev>>
    /\ CodecFrame

\* decode_table and the field-array and table kinds of decode_value on a
\* buffer, one loop iteration per step.  Inside the loop cdec holds the
\* mapping or the list built so far and the running offset.
\* `value, offset = decode_value(encoded, offset)`: the offset is rebound
\* to the one the call handed back.
Advance_stale(offset, new) == offset
Advance(offset, new) == new

\* decode_table up to its loop (data.py:187-190).
TableBegin(encoded, offset) ==
    IF ~CanUnpack(encoded, offset, 4)
    THEN /\ cdec' = DecFail("struct.error")
         /\ cphase' = "decoded"
         /\ UNCHANGED dlimit
    ELSE /\ dlimit' = offset + 4 + NatOf(Octets(encoded, offset, 4))
         /\ cdec' = DecOk(PyDict(<<>>), offset + 4)
         /\ cphase' = "decoding"

DecodeTableBegin ==
    /\ component = "codec" /\ cop = "decode_table" /\ cphase = "input"
    /\ TableBegin(carg.bs, carg.off)
    /\ UNCHANGED <<cop, carg, cpieces0, cenc, dprev>>
    /\ CodecFrame

\* decode_value up to the loop of a field array or of a table; any other
\* kind is decoded in this one step.
DecodeValueBegin ==
    /\ component = "codec" /\ cop = "decode_value" /\ cphase = "input"
    /\ LET encoded == carg.bs
           kind == Slice(encoded, carg.off, carg.off + 1)
           o == carg.off + 1
       IN IF kind = <<Tag.A>>
          THEN IF ~CanUnpack(encoded, o, 4)
               THEN /\ cdec' = DecFail("struct.error")
                    /\ cphase' = "decoded"
                    /\ UNCHANGED dlimit
               ELSE /\ dlimit' = o + 4 + NatOf(Octets(encoded, o, 4))
                    /\ cdec' = DecOk(PyList(<<>>), o + 4)
                    /\ cphase' = "decoding"
          ELSE IF kind = <<Tag.F>>
          THEN TableBegin(encoded, o)
          ELSE /\ cdec' = DecodeValue(encoded, carg.off)
               /\ cphase' = "decoded"
               /\ UNCHANGED dlimit
    /\ UNCHANGED <<cop, carg, cpieces0, cenc, dprev>>
    /\ CodecFrame

\* One iteration of the table loop (data.py:192-194) or of the array loop
\* (data.py:306-307); a fault of the pair or of the element ends the call.
DecodeIteration ==
    /\ component = "codec" /\ cphase = "decoding"
    /\ LoopContinues(cdec.off, dlimit)
    /\ LET encoded == carg.bs
           k == DecodeShortString(encoded, cdec.off)
           v == DecodeValue(encoded, IF cdec.val.t = "dict" THEN k.off ELSE cdec.off)
       IN IF cdec.val.t = "dict" /\ ~k.ok
          THEN cdec' = k /\ cphase' = "decoded"
          ELSE IF ~v.ok
          THEN cdec' = v /\ cphase' = "decoded"
          ELSE /\ cdec' = DecOk(IF cdec.val.t = "dict"
                                THEN PyDict(DictSet(cdec.val.items, k.val, v.val))
                                ELSE PyList(Append(cdec.val.items, v.val)),
                                Advance(cdec.off, v.off))
               /\ UNCHANGED cphase
    /\ dprev' = cdec.off
    /\ UNCHANGED <<cop, carg, cpieces0, cenc, dlimit>>
    /\ CodecFrame

\* The loop's condition is false: `return result, offset`.
DecodeReturn ==
    /\ component = "codec" /\ cphase = "decoding"
    /\ ~LoopContinues(cdec.off, dlimit)
    /\ cphase' = "decoded"
    /\ UNCHANGED <<cop, carg, cpieces0, cenc, cdec, dlimit, dprev>>
    /\ CodecFrame

NextCodec ==
    \/ CallEncodeValue
    \/ CallEncodeTable
    \/ CallEncodeShortString
    \/ CallDecodeValue
    \/ CallDecodeTable
    \/ CallDecodeShortString
    \/ DecodeTableBegin
    \/ DecodeValueBegin
    \/ DecodeIteration
    \/ DecodeReturn

-----------------------------------------------------------------------------
(***************************************************************************)
(* Properties of the Waiter                                                *)
(***************************************************************************)
\* A wait() call has completed (returned or raised) in the last step.
WaitCompleted == lastOp.op \in {"wait", "resume"} /\ lastOp.res # "suspended"

\* C1: a wait() returns a value only after a check() of a value satisfying
\* the predicate, and returns such a value; a check() whose value fails the
\* predicate changes nothing of the Waiter (it wakes nobody, stores nothing).
C1_Step ==
    /\ (lastOp'.op = "check" /\ lastOp'.res = "False")
          => /\ lastOp'.arg \notin predicate
             /\ UNCHANGED <<ev_value, canceld, waiting, stored, pc, waiters, ready>>
    /\ (lastOp'.op \in {"wait", "resume"} /\ lastOp'.res = "value")
          => /\ lastOp'.val \in predicate
             /\ lastOp'.val \in matched
C1_WaitReturnsOnlyMatched == [][C1_Step]_vars

\* A caller that saw a failing check() while blocked is then handed a value.
C1_Witness ==
    /\ lastOp.op = "resume"
    /\ lastOp.res = "value"
    /\ sawReject[lastOp.task]

\* C3 (as claimed): a wait() during which a cancel() was delivered never
\* completes by returning a value or by another fault than the cancellation.
C3_CancelAlwaysRaises ==
    WaitCompleted /\ owed[lastOp.task] => lastOp.res = "CancelledError"

\* C6 (as claimed): at most one caller is inside wait() at a time.
C6_SingleSlot == Cardinality(InWait) <= 1

\* C7: clear() leaves the signal, the canceled flag, the waiting flag and the
\* slot cleared; a wait() called before any later check() or cancel()
\* suspends; a value a wait() returns was matched by a check() after the last
\* clear(), and a cancellation it raises was delivered after the last clear().
C7_ResetClears ==
    /\ lastOp.op = "clear"
          => ~ev_value /\ ~canceld /\ ~waiting /\ stored = SENTINEL
    /\ (matched = {} /\ ~delivered)
          => ~ev_value /\ ~canceld /\ stored = SENTINEL
    /\ (lastOp.op = "wait" /\ matched = {} /\ ~delivered)
          => lastOp.res = "suspended"
    /\ (WaitCompleted /\ lastOp.res = "value") => lastOp.val \in matched
    /\ (WaitCompleted /\ lastOp.res = "CancelledError") => delivered

\* A canceled cycle completed, clear() was called with nobody inside wait(),
\* and the next wait() suspended and was then handed a value.
C7_Witness ==
    /\ prevCycle = "canceled"
    /\ lastOp.op = "resume"
    /\ lastOp.res = "value"

\* C10 (as claimed): cancel() returns true exactly when a caller is inside
\* wait() and no cancellation was delivered in the current cycle; it then
\* marks canceled and sets the signal, and otherwise changes nothing.
C10_Step ==
    lastOp'.op = "cancel"
       => /\ (lastOp'.res = "True") <=> (InWait # {} /\ ~delivered)
          /\ lastOp'.res = "True" => canceld' /\ ev_value'
          /\ lastOp'.res = "False"
                => UNCHANGED <<ev_value, canceld, waiting, stored, pc, waiters, ready>>
C10_CancelExact == [][C10_Step]_vars

\* C11 (as claimed): a check() that succeeds while nobody is inside wait()
\* records the signal and its value, and the next wait() call returns that
\* value at once.
C11_PendingAlwaysServed ==
    /\ (lastOp.op = "check" /\ lastOp.res = "True" /\ InWait = {})
          => ev_value /\ stored = lastOp.arg
    /\ (lastOp.op = "wait" /\ lastOp.arg # SENTINEL)
          => lastOp.res = "value" /\ lastOp.val = lastOp.arg

\* C11: a check() that succeeds while nobody is inside wait() records the
\* signal and its value; the next wait() call completes without suspending,
\* and returns that value unless a cancellation delivered since the last
\* clear() is still marked, in which case it raises the cancellation.
C11_PendingServed ==
    /\ (lastOp.op = "check" /\ lastOp.res = "True" /\ InWait = {})
          => ev_value /\ stored = lastOp.arg /\ pending = lastOp.arg
    /\ (lastOp.op = "wait" /\ lastOp.arg # SENTINEL)
          => IF canceld
             THEN lastOp.res = "CancelledError"
             ELSE lastOp.res = "value" /\ lastOp.val = lastOp.arg

\* A wait() called after a check() made with nobody waiting returned the
\* pending value without suspending.
C11_Witness ==
    /\ lastOp.op = "wait"
    /\ lastOp.arg # SENTINEL
    /\ lastOp.res = "value"
    /\ lastOp.val = lastOp.arg

\* C14 (as claimed): every wait() call that completes returns a value or
\* raises the cancellation; the assertion on the slot never fails.
C14_AssertionHolds ==
    WaitCompleted => lastOp.res \in {"value", "CancelledError"}

\* C15: check(value) returns the predicate's result; when it is false the
\* slot, the signal, the waiting flag and the canceled flag are unchanged;
\* when it is true the slot holds value, the signal is set, and the waiting
\* and canceled flags are unchanged.
C15_Step ==
    lastOp'.op = "check"
       => /\ (lastOp'.res = "True") <=> (lastOp'.arg \in predicate)
          /\ lastOp'.res \in {"True", "False"}
          /\ lastOp'.res = "False"
                => UNCHANGED <<stored, ev_value, waiting, canceld>>
          /\ lastOp'.res = "True"
                => /\ stored' = lastOp'.arg
                   /\ ev_value'
                   /\ UNCHANGED <<waiting, canceld>>
C15_CheckFrame == [][C15_Step]_vars

\* A check() succeeded while a caller was marked waiting and a cancellation
\* was marked: the value is in the slot and both flags are as they were.
C15_Witness ==
    /\ lastOp.op = "check"
    /\ lastOp.res = "True"
    /\ stored = lastOp.arg
    /\ ev_value
    /\ waiting
    /\ canceld

\* C16: a value a wait() returns is the argument of the latest successful
\* check(), and no value that a later successful check() overwrote before a
\* wait() returned is handed out.
C16_LatestWins ==
    (WaitCompleted /\ lastOp.res = "value")
       => lastOp.val = latest /\ lastOp.val \notin skipped

\* A suspended wait() was resumed with the latest value after an earlier
\* matched value had been overwritten.
C16_Witness ==
    /\ lastOp.op = "resume"
    /\ lastOp.res = "value"
    /\ skipped # {}
    /\ returns = 1

\* C18: the value of one successful check() is returned by at most one
\* wait(), the slot is empty after the return, and a returned value was the
\* argument of a check() that succeeded since the last clear().
C18_AtMostOnce ==
    /\ returns <= 1
    /\ (WaitCompleted /\ lastOp.res = "value")
          => /\ lastOp.val \in matched
             /\ stored = SENTINEL
             /\ returns = 1

\* After a wait() returned the matched value, a second wait() without a
\* further check() completed and was not handed that value again.
C18_Witness ==
    /\ WaitCompleted
    /\ lastOp.res # "value"
    /\ ~canceld
    /\ latest # SENTINEL
    /\ returns = 1

\* C4 (as claimed): once result_handler has run, exception_handler has been
\* called exactly once if the unit completed with a fault other than
\* cancellation, and not at all otherwise.
C4_AnyFaultReported ==
    \A u \in Units :
        callback[u] = "ran"
           => (Len(calls[u]) = 1 <=> outcome[u] \in {"exception", "base"})

\* C4 (amended): exception_handler is never called before the unit has
\* completed and never more than once; it is called, with the handle and the
\* fault, exactly when the unit completed with a fault derived from Exception
\* other than cancellation, and every such completion leads to the call.
C4_Safe ==
    \A u \in Units :
        /\ Len(calls[u]) <= 1
        /\ calls[u] # <<>>
              => /\ ustate[u] = "done"
                 /\ outcome[u] = "exception"
                 /\ calls[u] = <<[handle |-> u, fault |-> "exception"]>>
        /\ callback[u] = "ran" => (Len(calls[u]) = 1 <=> outcome[u] = "exception")
C4_ExceptionsReported ==
    /\ []C4_Safe
    /\ \A u \in Units : (outcome[u] = "exception") ~> (Len(calls[u]) = 1)

\* One unit's fault was reported, one was cancelled and one ended with a fault
\* outside Exception, and every callback has run.
C4_Witness ==
    /\ \A u \in Units : callback[u] = "ran"
    /\ \E u \in Units : outcome[u] = "exception" /\ Len(calls[u]) = 1
    /\ \E u \in Units : outcome[u] = "cancelled" /\ calls[u] = <<>>
    /\ \E u \in Units : outcome[u] = "base" /\ calls[u] = <<>>

\* C5: _dispatch_event raises UnexpectedFrameError, carrying the event, exactly
\* when the key is no method of the static mapping; for a key of the mapping
\* it returns what the conventional attribute held at construction, or None
\* when the instance had no such attribute.
C5_DispatchExact ==
    dlast.op = "dispatch"
       => /\ (dlast.res = "UnexpectedFrameError")
                <=> (dlast.key \notin DOMAIN method_to_callback_name)
          /\ dlast.res = "UnexpectedFrameError" => dlast.carried = dlast.event
          /\ dlast.key \in DOMAIN method_to_callback_name
                => /\ dlast.res = "return"
                   /\ LET n == method_to_callback_name[dlast.key]
                      IN dlast.handler = IF built_attrs[n] = Absent
                                         THEN NoneHandler
                                         ELSE built_attrs[n]

\* After a miss, a key of the mapping whose handler the instance never
\* declared is dispatched and yields None.
C5_Witness ==
    /\ dmissed
    /\ dlast.op = "dispatch"
    /\ dlast.key \in Catalog
    /\ built_attrs[method_to_callback_name[dlast.key]] = Absent
    /\ dlast.handler = NoneHandler
    /\ dlast.res = "return"

(***************************************************************************)
(* Properties of the codec                                                 *)
(***************************************************************************)
\* C2 (as claimed): decode_value at offset 0 of the octets encode_value
\* produced for an accepted value returns a value equal to it.
C2_ValueRoundTrip ==
    (cop = "encode_value" /\ cphase = "decoded" /\ cpieces0 = <<>>)
       => cdec.ok /\ PyEq(cdec.val, carg)

\* The number of octets of a code point in UTF-8.
Utf8Width(c) == IF c < 128 THEN 1 ELSE IF c < 2048 THEN 2 ELSE IF c < 65536 THEN 3 ELSE 4
RECURSIVE SumWidths(_)
SumWidths(cps) ==
    IF Len(cps) = 0 THEN 0
    ELSE IF Len(cps) = 1 THEN Utf8Width(cps[1])
    ELSE LET h == Len(cps) \div 2
         IN SumWidths(SubSeq(cps, 1, h)) + SumWidths(SubSeq(cps, h + 1, Len(cps)))
OctetLength(v) == IF v.t = "str" THEN SumWidths(v.cps) ELSE Len(v.bs)
Encodable(v) == v.t = "str" => \A i \in 1..Len(v.cps) : ~IsSurrogate(v.cps[i])

\* C8: encode_short_string raises ShortStringTooLong exactly when the input
\* has more than 255 octets in UTF-8; it then leaves pieces as they were, and
\* otherwise appends one octet holding the length and then the octets, and
\* returns 1 + length.
C8_ShortStringBound ==
    (cop = "encode_short_string" /\ cphase # "input" /\ Encodable(carg))
       => LET n == OctetLength(carg)
              added == SubSeq(cenc.pieces, Len(cpieces0) + 1, Len(cenc.pieces))
          IN /\ (cenc.err = "ShortStringTooLong") <=> (n > 255)
             /\ cenc.ok <=> (n <= 255)
             /\ ~cenc.ok => cenc.pieces = cpieces0
             /\ cenc.ok => /\ SubSeq(cenc.pieces, 1, Len(cpieces0)) = cpieces0
                           /\ Len(added) = 2
                           /\ added[1] = <<n>>
                           /\ Len(added[2]) = n
                           /\ carg.t = "bytes" => added[2] = carg.bs
                           /\ cenc.size = 1 + n

\* A string of 128 two-octet characters (256 octets) was refused and the
\* pieces already present were left alone.
C8_Witness ==
    /\ cop = "encode_short_string"
    /\ cphase = "encoded"
    /\ carg.t = "str"
    /\ Len(carg.cps) = 128
    /\ cenc.err = "ShortStringTooLong"
    /\ cpieces0 # <<>>
    /\ cenc.pieces = cpieces0

\* The pieces a call appended, and their octets.
Added == SubSeq(cenc.pieces, Len(cpieces0) + 1, Len(cenc.pieces))
AddedOctets == Join(Added)

\* C12: an integer from -2^63 to 2^63 - 1 is appended as one piece, the tag
\* 'l' followed by its 8 octets in big-endian two's complement, and 9 is
\* returned: inside the window at once, and at the window's edge after the
\* 32-bit form overflowed.  The 32-bit form (tag 'I', size 5) is never the
\* result, and an integer beyond 64 bits overflows both forms: nothing is
\* appended.
C12_IntegerWireForm ==
    (cop = "encode_value" /\ carg.t = "int" /\ cphase # "input")
       => IF FitsSigned(carg, 8)
          THEN /\ cenc.ok
               /\ cenc.size = 9
               /\ SubSeq(cenc.pieces, 1, Len(cpieces0)) = cpieces0
               /\ Len(Added) = 1
               /\ Len(Added[1]) = 9
               /\ Added[1][1] = 108
               /\ UnpackSigned(SubSeq(Added[1], 2, 9)) = carg
          ELSE /\ ~cenc.ok
               /\ cenc.err = "struct.error"
               /\ cenc.pieces = cpieces0

\* -2^63, outside the window, took the 64-bit form after the 32-bit attempt.
C12_Witness ==
    /\ cop = "encode_value"
    /\ cphase = "encoded"
    /\ carg = PyInt(TRUE, HalfMag(8))
    /\ ~InWindow(carg)
    /\ cenc.ok
    /\ cenc.size = 9
    /\ Added = <<<<108, 128, 0, 0, 0, 0, 0, 0, 0>>>>

\* The number of octets of a value on the wire, from the value alone.
RECURSIVE WireSize(_)
RECURSIVE ItemsWireSize(_)
RECURSIVE ElementsWireSize(_)
WireSize(v) ==
    IF v.t = "str" \/ v.t = "bytes" THEN 5 + OctetLength(v)
    ELSE IF v.t = "bool" THEN 2
    ELSE IF v.t = "int" \/ v.t = "datetime" THEN 9
    ELSE IF v.t = "decimal" THEN 6
    ELSE IF v.t = "dict" THEN 1 + 4 + ItemsWireSize(v.items)
    ELSE IF v.t = "list" THEN 5 + ElementsWireSize(v.items)
    ELSE 1
ItemsWireSize(items) ==
    IF items = <<>> THEN 0
    ELSE 1 + OctetLength(Head(items).k) + WireSize(Head(items).v)
           + ItemsWireSize(Tail(items))
ElementsWireSize(items) ==
    IF items = <<>> THEN 0
    ELSE WireSize(Head(items)) + ElementsWireSize(Tail(items))

\* The 4 octets at offset off of bs, as a number.
PrefixAt(bs, off) == NatOf(SubSeq(bs, off + 1, off + 4))

\* Every table and array prefix inside the encoding of v, which starts at
\* offset off of bs, holds the octet count of what follows it.
RECURSIVE PrefixesOk(_, _, _)
RECURSIVE ItemsPrefixesOk(_, _, _)
RECURSIVE ElementsPrefixesOk(_, _, _)
PrefixesOk(v, bs, off) ==
    IF v.t = "dict"
    THEN /\ bs[off + 1] = 70
         /\ PrefixAt(bs, off + 1) = ItemsWireSize(v.items)
         /\ ItemsPrefixesOk(v.items, bs, off + 5)
    ELSE IF v.t = "list"
    THEN /\ bs[off + 1] = 65
         /\ PrefixAt(bs, off + 1) = ElementsWireSize(v.items)
         /\ ElementsPrefixesOk(v.items, bs, off + 5)
    ELSE TRUE
ItemsPrefixesOk(items, bs, off) ==
    \/ items = <<>>
    \/ LET at == off + 1 + OctetLength(Head(items).k)
       IN /\ PrefixesOk(Head(items).v, bs, at)
          /\ ItemsPrefixesOk(Tail(items), bs, at + WireSize(Head(items).v))
ElementsPrefixesOk(items, bs, off) ==
    \/ items = <<>>
    \/ /\ PrefixesOk(Head(items), bs, off)
       /\ ElementsPrefixesOk(Tail(items), bs, off + WireSize(Head(items)))

\* C13: for a successful encode_value or encode_table call the returned size
\* is the number of octets the call appended; a table's 4-octet prefix is the
\* octet count of its keys and values (returned size = that count + 4); an
\* array's 4-octet prefix is the octet count of its elements; and so at every
\* depth of nesting.
C13_LengthPrefix ==
    /\ (cop = "encode_value" /\ cphase # "input" /\ cenc.ok)
          => /\ cenc.size = Len(AddedOctets)
             /\ cenc.size = WireSize(carg)
             /\ PrefixesOk(carg, AddedOctets, 0)
    /\ (cop = "encode_table" /\ cphase # "input" /\ cenc.ok)
          => LET items == IF carg.t = "dict" THEN carg.items ELSE <<>>
             IN /\ cenc.size = Len(AddedOctets)
                /\ PrefixAt(AddedOctets, 0) = Len(AddedOctets) - 4
                /\ cenc.size = ItemsWireSize(items) + 4
                /\ ItemsPrefixesOk(items, AddedOctets, 4)

\* An array of two elements, the first an array holding a table, was
\* encoded: its prefix counts octets (15), not elements (2).
C13_Witness ==
    /\ cop = "encode_value"
    /\ cphase = "encoded"
    /\ cenc.ok
    /\ carg.t = "list"
    /\ Len(carg.items) = 2
    /\ carg.items[1].t = "list"
    /\ Len(carg.items[1].items) = 1
    /\ carg.items[1].items[1].t = "dict"
    /\ PrefixAt(AddedOctets, 1) # Len(carg.items)

\* C9 (as claimed): decode_table at offset 0 of the octets encode_table
\* produced for a mapping with short-string keys returns an equal mapping.
C9_TableRoundTrip ==
    (cop = "encode_table" /\ cphase = "decoded" /\ cpieces0 = <<>>
        /\ carg.t = "dict")
       => cdec.ok /\ PyEq(cdec.val, carg)

\* The limit decode_table works to on the buffer it was handed: the offset,
\* plus 4, plus the length the 4 octets at the offset declare.
DeclaredLimit == carg.off + 4 + PrefixAt(carg.bs, carg.off)

\* The pair of the last iteration, decoded on its own.
LastKey == DecodeShortString(carg.bs, dprev)
LastValue == DecodeValue(carg.bs, LastKey.off)

\* C17: decode_table works to limit = offset + 4 + length; every pair it
\* reads starts before limit; a pair that decodes is taken in full, with
\* the offset at its end even when that is past limit; the call returns
\* only at an offset >= limit, and exactly at limit (the offset plus the
\* size encode_table returned) for every table encode_table produced.
C17_TableLoop ==
    /\ (cop = "decode_table" /\ cphase \in {"decoding", "decoded"} /\ dprev # NoOffset)
          => /\ dlimit = DeclaredLimit
             /\ dprev < DeclaredLimit
             /\ (LastKey.ok /\ LastValue.ok)
                   => cdec.ok /\ cdec.off = LastValue.off
    /\ (cop = "decode_table" /\ cphase = "decoded")
          => /\ cdec = DecodeTable(carg.bs, carg.off)
             /\ cdec.ok => cdec.off >= DeclaredLimit
    /\ (cop = "encode_table" /\ cphase = "decoded")
          => /\ cdec.ok
             /\ cdec.off = StartOffset + 4 + PrefixAt(Encoded, StartOffset)
             /\ cdec.off = StartOffset + cenc.size
             /\ cdec.off = Len(Encoded)

\* A table whose prefix ends inside its only pair was decoded without a
\* fault; the returned offset is past limit.
C17_Witness ==
    /\ cop = "decode_table"
    /\ cphase = "decoded"
    /\ cdec.ok
    /\ cdec.val.items # <<>>
    /\ dprev < dlimit
    /\ cdec.off > dlimit

\* Decoding has ended, by a return or by a fault of the decoder.
DecodingEnded == cphase = "decoded" /\ (cdec.ok \/ cdec.err # "not called")

\* C19: inside the table loop and the array loop every iteration either
\* leaves the offset strictly greater or ends the call with a fault, and the
\* loop is left only at an offset >= limit; every decoder call ends, by
\* returning a value with an offset or by raising.
C19_Step ==
    cphase = "decoding"
       => IF cdec.off < dlimit
          THEN /\ dprev' = cdec.off
               /\ cdec'.ok => cdec'.off > cdec.off /\ cphase' = "decoding"
               /\ ~cdec'.ok => cphase' = "decoded"
          ELSE cphase' = "decoded" /\ cdec' = cdec
C19_Terminates == [][C19_Step]_vars /\ <>DecodingEnded

\* An array whose prefix declares far more octets than the buffer holds was
\* decoded element by element until a fault ended the call.
C19_Witness ==
    /\ cop = "decode_value"
    /\ cphase = "decoded"
    /\ dlimit > Len(carg.bs)
    /\ dprev > carg.off + 5
    /\ ~cdec.ok

-----------------------------------------------------------------------------
IdleDispatch == attrs = [n \in AttrNames |-> Absent] /\ InitDispatchState

Init ==
    /\ component \in {"waiter", "supervisor", "dispatch", "codec"}
    /\ IF component = "waiter" THEN InitWaiter ELSE IdleWaiter
    /\ IF component = "supervisor" THEN InitSupervisor ELSE InitSupervisorState
    /\ IF component = "dispatch" THEN InitDispatch ELSE IdleDispatch
    /\ IF component = "codec" THEN InitCodec ELSE IdleCodec

Next ==
    \/ NextWaiter
    \/ NextSupervisor
    \/ NextDispatch
    \/ NextCodec

Spec == Init /\ [][Next]_vars

WaiterInit == InitWaiter /\ InitSupervisorState /\ IdleDispatch /\ IdleCodec
SpecWaiter == WaiterInit /\ [][NextWaiter]_vars

SupervisorInit == InitSupervisor /\ IdleWaiter /\ IdleDispatch /\ IdleCodec
SpecSupervisor ==
    /\ SupervisorInit
    /\ [][NextSupervisor]_vars
    /\ \A u \in Units : WF_vars(RunCallback(u))

DispatchInit == InitDispatch /\ IdleWaiter /\ InitSupervisorState /\ IdleCodec
SpecDispatch == DispatchInit /\ [][NextDispatch]_vars

CodecInit == InitCodec /\ IdleWaiter /\ InitSupervisorState /\ IdleDispatch
SpecCodec == CodecInit /\ [][NextCodec]_vars

\* The decoders on a buffer.  They are straight-line code: a call that can
\* take a step takes it.
DecoderInit == CodecInit /\ cop \in {"decode_value", "decode_table"}
NextDecoder ==
    \/ DecodeTableBegin
    \/ DecodeValueBegin
    \/ DecodeIteration
    \/ DecodeReturn
SpecDecoder == DecoderInit /\ [][NextDecoder]_vars /\ WF_vars(NextDecoder)

=============================================================================
